---- MODULE Spec2Model ----
(***************************************************************************)
(* Task lifecycle and deduplication engine of the AirGuardian backend:     *)
(* services/analysis_service.py (run_analysis, analyze_with_dedalus,       *)
(* prune_outdated_tasks, save_tasks, load_tasks, get_active_tasks),        *)
(* routers/tasks.py (get_tasks, resolve_task) and the scheduler loop       *)
(* continuous_analysis of services/main.py.                                *)
(*                                                                         *)
(* Everything runs on one asyncio event loop: a coroutine is interleaved   *)
(* with the request handlers only where it awaits something that really    *)
(* suspends (asyncio.sleep, the METAR fetch, the Dedalus runner).  The     *)
(* code between two such awaits runs without interruption; the model       *)
(* keeps its steps apart (pc) and lets handlers and the clock move only    *)
(* while the loop is suspended.                                            *)
(*                                                                         *)
(* Time is counted in minutes; the clock moves from one of the Instants to *)
(* the next while the loop is suspended, and the few datetime.now() calls  *)
(* of one uninterrupted stretch read the same minute.                      *)
(***************************************************************************)
EXTENDS Integers, Sequences, FiniteSets, TLC

\* ------------------------------------------------------------------ bounds
MaxBatch == 2        \* findings in one oracle answer
MaxTasks == 2        \* records the store may hold after a merge
MaxAudioTasks == 4   \* the same, where only narrated findings are drawn
MaxPruneTasks == 2   \* records of a list given to the pruner alone
MaxLiveTasks == 2    \* records of the store where the loop is fair

\* The minutes at which the clock is read: they give a record the ages 10
\* and 20, around the unresolved expiry, and 60 and 70, around the resolved
\* retention.
Instants == <<0, 20, 30, 90>>

\* The instants of the system where only narrated findings are drawn: a
\* record not seen again has expired at the second.
AudioInstants == SubSeq(Instants, 1, 2)

\* ------------------------------------------------------ program constants
TASK_EXPIRY_MINUTES == 10
RESOLVED_TASK_RETENTION_HOURS == 1
MAX_HIGH_PRIORITY_AUDIO == 3
ID_MODULUS == 1000000

\* Python's None (JSON null); no field value of the model is this string.
None == "<None>"

\* A key that a finding of the oracle's answer does not have.
Missing == "<missing>"

\* A record without the key last_seen (dict.get returns None).
NoTime == 0 - 1

\* A timestamp that datetime.fromisoformat rejects (it raises ValueError).
BadTime == 0 - 2

\* ------------------------------------------------------- oracle's answers

\* One finding as the oracle returns it (an entry of the "tasks" array of its
\* JSON answer).  The findings drawn: two of one fingerprint that differ in
\* the length of the description and in having a pilot message, and one of
\* low priority for an aircraft the oracle could not identify.
RawTasks ==
    {[aircraft_icao24 |-> "A1", category |-> "Low Altitude", priority |-> "HIGH",
      description |-> "alt", pilot_message |-> "climb"],
     [aircraft_icao24 |-> "A1", category |-> "Low Altitude", priority |-> "HIGH",
      description |-> "low alt", pilot_message |-> ""],
     [aircraft_icao24 |-> "UNKNOWN", category |-> "Low Altitude", priority |-> "LOW",
      description |-> "alt", pilot_message |-> "climb"]}

\* Findings that all ask for narration: two aircraft, high priority.
NarratedRawTasks ==
    {[aircraft_icao24 |-> "A1", category |-> "Low Altitude", priority |-> "HIGH",
      description |-> "alt", pilot_message |-> "climb"],
     [aircraft_icao24 |-> "A2", category |-> "Low Altitude", priority |-> "HIGH",
      description |-> "alt", pilot_message |-> "climb"]}

\* Findings whose fields hold the character that joins them in a fingerprint:
\* the oracle's strings are taken as they come (lines 398 and 421).
UnderscoredRawTasks ==
    {[aircraft_icao24 |-> "A1", category |-> "Low_Altitude", priority |-> "HIGH",
      description |-> "alt", pilot_message |-> ""],
     [aircraft_icao24 |-> "A1_Low", category |-> "Altitude", priority |-> "HIGH",
      description |-> "low alt", pilot_message |-> ""]}

\* Findings that do not say which aircraft, or of what category or priority:
\* one without the three keys, one that names them as the code's defaults do,
\* and one of high priority with an empty aircraft code.
SentinelRawTasks ==
    {[aircraft_icao24 |-> Missing, category |-> Missing, priority |-> Missing,
      description |-> "alt", pilot_message |-> ""],
     [aircraft_icao24 |-> "UNKNOWN", category |-> "Other", priority |-> "LOW",
      description |-> "low alt", pilot_message |-> ""],
     [aircraft_icao24 |-> "", category |-> "Low Altitude", priority |-> "HIGH",
      description |-> "alt", pilot_message |-> "climb"]}

\* The aircraft snapshot read from Redis: nothing, aircraft whose first entry
\* has no position, aircraft with a position, or a list whose first entry is
\* no JSON object (planes[0].get raises).
Snapshots == {"empty", "no_position", "position", "malformed"}

\* --------------------------------------------------------- pure functions

\* str.upper() on the priorities the oracle uses.
Upper(s) ==
    CASE s = "high" -> "HIGH"
      [] s = "low" -> "LOW"
      [] s = "medium" -> "MEDIUM"
      [] OTHER -> s

\* hash(fingerprint) for the interpreter's hash seed: a fixed table over the
\* fingerprints of the model, negative values included.
PyHash(s) ==
    CASE s = "A1_Low Altitude_HIGH" -> 0 - 7000123
      [] s = "A1_Low Altitude_LOW" -> 5000456
      [] s = "A2_Low Altitude_HIGH" -> 9000789
      [] s = "UNIDENTIFIED_Low Altitude_LOW" -> 0 - 3000321
      [] OTHER -> 11000999

Abs(n) == IF n < 0 THEN 0 - n ELSE n

\* analyze_with_dedalus, lines 419-423.
Fingerprint(icao24, category, priority) ==
    icao24 \o "_" \o category \o "_" \o priority

TaskId(fingerprint) == Abs(PyHash(fingerprint)) % ID_MODULUS

\* generate_audio_for_task: the file name written on success.
AudioFilename(task_id) == "task_" \o ToString(task_id) \o ".mp3"

\* analyze_with_dedalus, lines 399-409: a missing or UNKNOWN hex code is looked
\* up by callsign; the oracle's findings of the model carry no callsign, so
\* the lookup finds nothing.
NormalizeIcao(icao24) ==
    IF icao24 = Missing \/ icao24 = "" \/ icao24 = "UNKNOWN"
    THEN "UNIDENTIFIED" ELSE icao24

\* dict.get(key, default): the default for a key the finding does not have.
Get(value, default) == IF value = Missing THEN default ELSE value

\* analyze_with_dedalus, lines 397-428: the metadata added to one finding.
AddMetadata(raw, now) ==
    LET icao24 == NormalizeIcao(raw.aircraft_icao24)
        fingerprint == Fingerprint(icao24, Get(raw.category, "Other"),
                                   Get(raw.priority, "LOW"))
    IN  [aircraft_icao24 |-> icao24,
         category |-> raw.category,
         priority |-> raw.priority,
         description |-> raw.description,
         pilot_message |-> raw.pilot_message,
         fingerprint |-> fingerprint,
         id |-> TaskId(fingerprint),
         created_at |-> now,
         last_seen |-> NoTime,
         resolved |-> FALSE,
         audio_file |-> None]

\* ------------------------------------------------- Audio Slot Allocator

\* Line 432 without the filter: every finding is a candidate for narration.
IsHighAnyPriority(t) == TRUE

IsHigh(t) == Upper(t.priority) = "HIGH"

\* analyze_with_dedalus, lines 436-441.
ExistingHighWithAudio(existing_tasks) ==
    Cardinality({i \in 1..Len(existing_tasks) :
        /\ ~existing_tasks[i].resolved
        /\ IsHigh(existing_tasks[i])
        /\ existing_tasks[i].audio_file # None})

\* Line 444 with the count of the narrated records left out.
AudioSlotsAvailableUncounted(existing_tasks) == MAX_HIGH_PRIORITY_AUDIO

\* analyze_with_dedalus, line 444.
AudioSlotsAvailable(existing_tasks) ==
    LET free == MAX_HIGH_PRIORITY_AUDIO - ExistingHighWithAudio(existing_tasks)
    IN  IF free > 0 THEN free ELSE 0

\* Lines 449-461 with line 460 moved out of the test of line 458: a failed
\* narration counts as a slot used.
RECURSIVE GenerateAudioCountsFailures(_, _, _, _, _)
GenerateAudioCountsFailures(tasks, i, audio_generated, slots, tts) ==
    IF i > Len(tasks) THEN tasks
    ELSE IF ~IsHigh(tasks[i])
         THEN GenerateAudioCountsFailures(tasks, i + 1, audio_generated, slots, tts)
    ELSE IF audio_generated >= slots THEN tasks
    ELSE IF tasks[i].pilot_message # "" /\ tts[i]
         THEN GenerateAudioCountsFailures(
                  [tasks EXCEPT ![i].audio_file = AudioFilename(tasks[i].id)],
                  i + 1, audio_generated + 1, slots, tts)
         ELSE GenerateAudioCountsFailures(tasks, i + 1, audio_generated + 1, slots, tts)

\* analyze_with_dedalus, lines 449-461: the loop over the HIGH findings, from
\* position i on, with audio_generated files made so far.  tts[i] tells
\* whether generate_audio_for_task succeeds for finding i.  The loop ends at
\* the first HIGH finding met with no slot left.
RECURSIVE GenerateAudio(_, _, _, _, _)
GenerateAudio(tasks, i, audio_generated, slots, tts) ==
    IF i > Len(tasks) THEN tasks
    ELSE IF ~IsHigh(tasks[i]) THEN GenerateAudio(tasks, i + 1, audio_generated, slots, tts)
    ELSE IF audio_generated >= slots THEN tasks
    ELSE IF tasks[i].pilot_message # "" /\ tts[i]
         THEN GenerateAudio(
                  [tasks EXCEPT ![i].audio_file = AudioFilename(tasks[i].id)],
                  i + 1, audio_generated + 1, slots, tts)
         ELSE GenerateAudio(tasks, i + 1, audio_generated, slots, tts)

\* Lines 378-464 leaving out the findings whose aircraft is not identified.
AnalyzeDropsUnidentified(raw_tasks, existing_tasks, now, tts) ==
    LET tasks == [i \in 1..Len(raw_tasks) |-> AddMetadata(raw_tasks[i], now)]
        Identified(task) == task.aircraft_icao24 # "UNIDENTIFIED"
    IN  SelectSeq(GenerateAudio(tasks, 1, 0, AudioSlotsAvailable(existing_tasks), tts),
                  Identified)

\* analyze_with_dedalus, lines 378-464: the findings of one answer with their
\* metadata and the audio the allocator gave them.
Analyze(raw_tasks, existing_tasks, now, tts) ==
    LET tasks == [i \in 1..Len(raw_tasks) |-> AddMetadata(raw_tasks[i], now)]
    IN  GenerateAudio(tasks, 1, 0, AudioSlotsAvailable(existing_tasks), tts)

\* --------------------------------------------------------- Merge Engine

\* Lines 508-513 without the test of line 510: resolved records are mapped too.
ExistingIndexAnyRecord(existing_tasks, fingerprint) ==
    LET hits == {i \in 1..Len(existing_tasks) :
                    existing_tasks[i].fingerprint = fingerprint}
    IN  IF hits = {} THEN 0 ELSE CHOOSE i \in hits : \A j \in hits : j <= i

\* run_analysis, lines 508-513: existing_fingerprints[fingerprint], the index
\* of the last unresolved record with that fingerprint; 0 when there is none.
ExistingIndex(existing_tasks, fingerprint) ==
    LET hits == {i \in 1..Len(existing_tasks) :
                    /\ ~existing_tasks[i].resolved
                    /\ existing_tasks[i].fingerprint = fingerprint}
    IN  IF hits = {} THEN 0 ELSE CHOOSE i \in hits : \A j \in hits : j <= i

\* Lines 521-530 storing the finding in place of the record it matches.
UpdateExistingReplaces(old, task, now) ==
    [task EXCEPT
        !.last_seen = now,
        !.description = IF Len(task.description) > Len(old.description)
                        THEN task.description ELSE old.description,
        !.audio_file = IF old.audio_file = None THEN task.audio_file ELSE old.audio_file]

\* Lines 521-530 without the test of line 527: the record takes the audio_file
\* of the finding, whatever it had.
UpdateExistingTakesAudio(old, task, now) ==
    [old EXCEPT
        !.last_seen = now,
        !.description = IF Len(task.description) > Len(old.description)
                        THEN task.description ELSE @,
        !.audio_file = task.audio_file]

\* Lines 521-530 with last_seen taken from the record's creation.
UpdateExistingStale(old, task, now) ==
    [old EXCEPT
        !.last_seen = IF old.created_at < @ THEN old.created_at ELSE @,
        !.description = IF Len(task.description) > Len(old.description)
                        THEN task.description ELSE @,
        !.audio_file = IF old.audio_file = None /\ task.audio_file # None
                       THEN task.audio_file ELSE @]

\* run_analysis, lines 521-530: the matched record after the update.
UpdateExisting(old, task, now) ==
    [old EXCEPT
        !.last_seen = now,
        !.description = IF Len(task.description) > Len(old.description)
                        THEN task.description ELSE @,
        !.audio_file = IF old.audio_file = None /\ task.audio_file # None
                       THEN task.audio_file ELSE @]

\* Lines 518-534 where line 534 puts the new record before the others.
RECURSIVE MergeFromPrepends(_, _, _, _, _)
MergeFromPrepends(loaded, m, tasks, k, now) ==
    IF k > Len(tasks) THEN m
    ELSE LET task == tasks[k]
             idx == ExistingIndex(loaded, task.fingerprint)
         IN  IF idx # 0
             THEN MergeFromPrepends(loaded,
                      [m EXCEPT
                          !.existing_tasks[idx] = UpdateExisting(@, task, now),
                          !.updated_indices = @ \cup {idx}],
                      tasks, k + 1, now)
             ELSE MergeFromPrepends(loaded,
                      [m EXCEPT
                          !.new_tasks = <<[task EXCEPT !.last_seen = task.created_at]>> \o @],
                      tasks, k + 1, now)

\* run_analysis, lines 518-534: the loop over the findings from position k on.
\* The fingerprint map is built once, from the records as loaded.
RECURSIVE MergeFrom(_, _, _, _, _)
MergeFrom(loaded, m, tasks, k, now) ==
    IF k > Len(tasks) THEN m
    ELSE LET task == tasks[k]
             idx == ExistingIndex(loaded, task.fingerprint)
         IN  IF idx # 0
             THEN MergeFrom(loaded,
                      [m EXCEPT
                          !.existing_tasks[idx] = UpdateExisting(@, task, now),
                          !.updated_indices = @ \cup {idx}],
                      tasks, k + 1, now)
             ELSE MergeFrom(loaded,
                      [m EXCEPT
                          !.new_tasks = Append(@, [task EXCEPT !.last_seen = task.created_at])],
                      tasks, k + 1, now)

\* Lines 504-534 refreshing every unresolved record, matched or not.
MergeRefreshesAll(existing_tasks, tasks, now) ==
    LET m == MergeFrom(existing_tasks,
                 [existing_tasks |-> existing_tasks, new_tasks |-> <<>>,
                  updated_indices |-> {}],
                 tasks, 1, now)
    IN  [m EXCEPT !.existing_tasks =
            [i \in 1..Len(existing_tasks) |->
                IF m.existing_tasks[i].resolved THEN m.existing_tasks[i]
                ELSE [m.existing_tasks[i] EXCEPT !.last_seen = now]]]

\* run_analysis, lines 504-534.
Merge(existing_tasks, tasks, now) ==
    MergeFrom(existing_tasks,
              [existing_tasks |-> existing_tasks, new_tasks |-> <<>>, updated_indices |-> {}],
              tasks, 1, now)

\* Line 537 with the operands exchanged.
AllTasksNewFirst(m) == m.new_tasks \o m.existing_tasks

\* run_analysis, line 537.
AllTasks(m) == m.existing_tasks \o m.new_tasks

\* ------------------------------------------------------ Retention Pruner

\* Lines 572-600 with <= in line 584: a record as old as the expiry is dropped.
KeepTaskExpiryInclusive(task, now) ==
    LET task_expiry_cutoff == now - TASK_EXPIRY_MINUTES
        resolved_retention_cutoff == now - 60 * RESOLVED_TASK_RETENTION_HOURS
        last_seen == IF task.last_seen # NoTime THEN task.last_seen ELSE task.created_at
    IN  IF ~task.resolved
        THEN ~(last_seen # NoTime /\ last_seen <= task_expiry_cutoff)
        ELSE ~(task.created_at # NoTime /\ task.created_at < resolved_retention_cutoff)

\* Lines 572-600 with the resolved records judged by last_seen, like the others.
KeepTaskResolvedByLastSeen(task, now) ==
    LET task_expiry_cutoff == now - TASK_EXPIRY_MINUTES
        resolved_retention_cutoff == now - 60 * RESOLVED_TASK_RETENTION_HOURS
        last_seen == IF task.last_seen # NoTime THEN task.last_seen ELSE task.created_at
    IN  IF ~task.resolved
        THEN ~(last_seen # NoTime /\ last_seen < task_expiry_cutoff)
        ELSE ~(last_seen # NoTime /\ last_seen < resolved_retention_cutoff)

\* Lines 572-608 without the handler of lines 605-608 around the parsing: a
\* record whose timestamp does not parse is not appended to the result.
KeepTaskDropsUnparsed(task, now) ==
    LET task_expiry_cutoff == now - TASK_EXPIRY_MINUTES
        resolved_retention_cutoff == now - 60 * RESOLVED_TASK_RETENTION_HOURS
        last_seen == IF task.last_seen # NoTime THEN task.last_seen ELSE task.created_at
    IN  IF ~task.resolved
        THEN ~(last_seen # NoTime /\ last_seen < task_expiry_cutoff)
        ELSE ~(task.created_at # NoTime /\ task.created_at < resolved_retention_cutoff)

\* prune_outdated_tasks, lines 572-608: whether one record is kept.  A
\* timestamp that does not parse raises in line 579 or 592 and the handler of
\* lines 605-608 keeps the record.
KeepTask(task, now) ==
    LET task_expiry_cutoff == now - TASK_EXPIRY_MINUTES
        resolved_retention_cutoff == now - 60 * RESOLVED_TASK_RETENTION_HOURS
        last_seen == IF task.last_seen # NoTime THEN task.last_seen ELSE task.created_at
    IN  IF ~task.resolved
        THEN ~(last_seen # NoTime /\ last_seen # BadTime /\ last_seen < task_expiry_cutoff)
        ELSE ~(/\ task.created_at # NoTime
               /\ task.created_at # BadTime
               /\ task.created_at < resolved_retention_cutoff)

\* Lines 549-613 where lines 604 and 608 put the kept record before the others.
prune_outdated_tasks_newest_first(tasks, now) ==
    LET Keep(task) == KeepTask(task, now)
        kept == SelectSeq(tasks, Keep)
    IN  [i \in 1..Len(kept) |-> kept[Len(kept) + 1 - i]]

\* prune_outdated_tasks, lines 549-613.
prune_outdated_tasks(tasks, now) ==
    LET Keep(task) == KeepTask(task, now)
    IN  SelectSeq(tasks, Keep)

\* ----------------------------------------------------------------- store

\* load_tasks, lines 631-647: the list in tasks.json; a file that holds no
\* complete JSON document (just opened for writing) loads as [].
load_tasks(stored) == stored

\* Lines 650-659 without the filter of line 659.
get_all_tasks(stored) == load_tasks(stored)

\* get_active_tasks, lines 650-659.
get_active_tasks(stored) ==
    LET Active(task) == ~task.resolved
    IN  SelectSeq(load_tasks(stored), Active)

\* ----------------------------------------------------------------- state

VARIABLES
    file,              \* tasks.json: the list it holds (empty while truncated)
    committed,         \* history: the list of the last write that completed
    clock,             \* datetime.now(timezone.utc): Instants[clock] minutes
    api_key,           \* whether DEDALUS_API_KEY is set
    pc,                \* where continuous_analysis stands
    analysis_lock,     \* main.analysis_lock is held
    analysis_running,  \* main.analysis_running
    tasks,             \* run_analysis: the findings analyze_with_dedalus returned
    all_tasks,         \* run_analysis: the list being merged, pruned and saved
    response           \* what the step just taken answered to its caller

vars == <<file, committed, clock, api_key, pc, analysis_lock, analysis_running,
          tasks, all_tasks, response>>

NoResponse == [op |-> "none", status |-> 0, task_id |-> 0, tasks |-> <<>>]

\* Handlers that run in threads of their own, at any point of the loop.
SuspendedAnywhere == TRUE

\* run_analysis with an await between load_tasks (line 505) and save_tasks
\* (line 543): handlers also run while the loaded list is merged and pruned.
SuspendedWhileMerging == pc \in {"idle", "weather", "oracle", "prune", "save"}

\* The awaits of continuous_analysis that give the event loop to other
\* coroutines: asyncio.sleep (main.py 64, 76, 81), the METAR fetch
\* (analysis_service.py 496) and runner.run (analysis_service.py 307).
Suspended == pc \in {"idle", "weather", "oracle"}

\* The answers of at most MaxBatch findings drawn from raws.
Batches(raws) == UNION {[1..n -> raws] : n \in 0..MaxBatch}

Init ==
    /\ file = <<>>
    /\ committed = <<>>
    /\ clock = 1
    /\ api_key \in BOOLEAN
    /\ pc = "idle"
    /\ analysis_lock = FALSE
    /\ analysis_running = FALSE
    /\ tasks = <<>>
    /\ all_tasks = <<>>
    /\ response = NoResponse

\* ------------------------------------------------------------- scheduler

\* Time passes while the loop is suspended, up to the instant numbered last.
Tick(last) ==
    /\ Suspended
    /\ clock < last
    /\ clock' = clock + 1
    /\ response' = NoResponse
    /\ UNCHANGED <<file, committed, api_key, pc, analysis_lock, analysis_running,
                   tasks, all_tasks>>

\* continuous_analysis, lines 68-70: the gate is taken and the flag raised.
EnterGate ==
    /\ pc = "idle"
    /\ ~analysis_lock
    /\ analysis_lock' = TRUE
    /\ analysis_running' = TRUE
    /\ pc' = "run"
    /\ response' = NoResponse
    /\ UNCHANGED <<file, committed, clock, api_key, tasks, all_tasks>>

\* continuous_analysis, lines 72-76: run_analysis returned; the flag is
\* cleared, the gate released and the loop sleeps.
LeaveGate ==
    /\ analysis_running' = FALSE
    /\ analysis_lock' = FALSE
    /\ pc' = "idle"

\* Lines 78-81 without line 80: the flag stays up.
LeaveGateOnErrorFlagUp ==
    /\ analysis_lock' = FALSE
    /\ analysis_running' = analysis_running
    /\ pc' = "idle"

\* Without the handler of lines 78-81: the exception ends continuous_analysis.
LeaveGateOnErrorStops ==
    /\ analysis_lock' = FALSE
    /\ analysis_running' = FALSE
    /\ pc' = "stopped"

\* continuous_analysis, lines 78-81: run_analysis raised; async with releases
\* the gate, the handler clears the flag and the loop sleeps.
LeaveGateOnError ==
    /\ analysis_lock' = FALSE
    /\ analysis_running' = FALSE
    /\ pc' = "idle"

\* continuous_analysis, line 79: it caught an exception of run_analysis.
Raised == [op |-> "continuous_analysis", status |-> 500, task_id |-> 0, tasks |-> <<>>]

\* run_analysis, line 490: it returned [] without having analysed.
Skipped == [op |-> "run_analysis", status |-> 0, task_id |-> 0, tasks |-> <<>>]

\* Lines 485-499 without the test of line 487: an empty snapshot is analysed.
ReadPlanesAnalyzesEmpty(planes) ==
    /\ pc = "run"
    /\ response' = NoResponse
    /\ UNCHANGED <<file, committed, clock, api_key, tasks, all_tasks>>
    /\ CASE planes = "malformed" -> LeaveGateOnError
         [] planes = "position" ->
                pc' = "weather" /\ UNCHANGED <<analysis_lock, analysis_running>>
         [] OTHER ->
                pc' = "analyze" /\ UNCHANGED <<analysis_lock, analysis_running>>

\* run_analysis, lines 485-499: the snapshot is read.
ReadPlanes(planes) ==
    /\ pc = "run"
    /\ response' = CASE planes = "empty" -> Skipped
                      [] planes = "malformed" -> Raised
                      [] OTHER -> NoResponse
    /\ UNCHANGED <<file, committed, clock, api_key, tasks, all_tasks>>
    /\ CASE planes = "empty" -> LeaveGate
         [] planes = "malformed" -> LeaveGateOnError
         [] planes = "position" ->
                pc' = "weather" /\ UNCHANGED <<analysis_lock, analysis_running>>
         [] OTHER ->
                pc' = "analyze" /\ UNCHANGED <<analysis_lock, analysis_running>>

\* run_analysis, lines 496-499: get_weather_for_aircraft returns (a METAR or
\* None; the store logic reads neither).
WeatherReturns ==
    /\ pc = "weather"
    /\ pc' = "analyze"
    /\ response' = NoResponse
    /\ UNCHANGED <<file, committed, clock, api_key, analysis_lock, analysis_running,
                   tasks, all_tasks>>

\* datetime.now(timezone.utc).
Now == Instants[clock]

\* analyze_with_dedalus, lines 281-311: without an API key it returns [] at
\* once, otherwise it awaits the runner.
CallOracle ==
    /\ pc = "analyze"
    /\ IF api_key THEN pc' = "oracle" /\ tasks' = tasks
                  ELSE pc' = "merge" /\ tasks' = <<>>
    /\ response' = NoResponse
    /\ UNCHANGED <<file, committed, clock, api_key, analysis_lock, analysis_running,
                   all_tasks>>

\* analyze_with_dedalus, line 307: the awaited runner.run ends, with an
\* answer or with an exception.
RunnerEnds ==
    /\ pc = "oracle"
    /\ pc' = "answer"
    /\ response' = NoResponse
    /\ UNCHANGED <<file, committed, clock, api_key, analysis_lock, analysis_running,
                   tasks, all_tasks>>

\* The findings of raw_tasks for which the allocator may call the narrator.
Narratable(raw_tasks) ==
    {i \in 1..Len(raw_tasks) :
        IsHigh(raw_tasks[i]) /\ raw_tasks[i].pilot_message # ""}

\* analyze_with_dedalus, lines 378-464: the runner answered with raw_tasks.
OracleReturns(raw_tasks, tts, max_tasks) ==
    /\ pc = "answer"
    /\ LET found == Analyze(raw_tasks, load_tasks(file), Now, tts)
       IN  /\ Len(AllTasks(Merge(load_tasks(file), found, Now))) <= max_tasks
           /\ tasks' = found
    /\ pc' = "merge"
    /\ response' = NoResponse
    /\ UNCHANGED <<file, committed, clock, api_key, analysis_lock, analysis_running,
                   all_tasks>>

\* analyze_with_dedalus, lines 466-470: it caught an exception and returned [].
Failed == [op |-> "analyze_with_dedalus", status |-> 500, task_id |-> 0, tasks |-> <<>>]

\* Without the handler of lines 466-470: the exception ends run_analysis and
\* reaches the handler of continuous_analysis.
OracleFailsAborts ==
    /\ pc = "answer"
    /\ LeaveGateOnError
    /\ response' = Failed
    /\ UNCHANGED <<file, committed, clock, api_key, tasks, all_tasks>>

\* analyze_with_dedalus, lines 466-470: the call or the parsing of its answer
\* raised; the findings are [].
OracleFails ==
    /\ pc = "answer"
    /\ tasks' = <<>>
    /\ pc' = "merge"
    /\ response' = Failed
    /\ UNCHANGED <<file, committed, clock, api_key, analysis_lock, analysis_running,
                   all_tasks>>

\* run_analysis, lines 504-537.
MergeTasks ==
    /\ pc = "merge"
    /\ all_tasks' = AllTasks(Merge(load_tasks(file), tasks, Now))
    /\ tasks' = <<>>
    /\ pc' = "prune"
    /\ response' = NoResponse
    /\ UNCHANGED <<file, committed, clock, api_key, analysis_lock, analysis_running>>

\* run_analysis, line 540.
PruneTasks ==
    /\ pc = "prune"
    /\ all_tasks' = prune_outdated_tasks(all_tasks, Now)
    /\ pc' = "save"
    /\ response' = NoResponse
    /\ UNCHANGED <<file, committed, clock, api_key, analysis_lock, analysis_running,
                   tasks>>

\* save_tasks, line 624: open(path, 'w') truncates tasks.json.
SaveOpen ==
    /\ pc = "save"
    /\ file' = <<>>
    /\ pc' = "dump"
    /\ response' = NoResponse
    /\ UNCHANGED <<committed, clock, api_key, analysis_lock, analysis_running,
                   tasks, all_tasks>>

\* save_tasks, lines 625-626, then run_analysis returns (lines 545-546).
SaveDump ==
    /\ pc = "dump"
    /\ file' = all_tasks
    /\ committed' = all_tasks
    /\ all_tasks' = <<>>
    /\ LeaveGate
    /\ response' = NoResponse
    /\ UNCHANGED <<clock, api_key, tasks>>

\* -------------------------------------------------------------- handlers

\* routers/tasks.py get_tasks, lines 34-53.
GetTasks ==
    /\ Suspended
    /\ response' = [op |-> "get_tasks", status |-> 200, task_id |-> 0,
                    tasks |-> get_active_tasks(file)]
    /\ UNCHANGED <<file, committed, clock, api_key, pc, analysis_lock,
                   analysis_running, tasks, all_tasks>>

\* Lines 68-73 looking only at the records not yet resolved.
FirstUnresolvedWithId(stored, task_id) ==
    LET hits == {i \in 1..Len(stored) : stored[i].id = task_id /\ ~stored[i].resolved}
    IN  IF hits = {} THEN 0 ELSE CHOOSE i \in hits : \A j \in hits : i <= j

\* routers/tasks.py resolve_task, lines 68-73: the first record with that id.
FirstWithId(stored, task_id) ==
    LET hits == {i \in 1..Len(stored) : stored[i].id = task_id}
    IN  IF hits = {} THEN 0 ELSE CHOOSE i \in hits : \A j \in hits : i <= j

\* Lines 56-84 without the test of lines 75-76: the list is saved and success
\* answered whether or not a record was found.
ResolveTaskUnchecked(task_id) ==
    /\ Suspended
    /\ LET loaded == load_tasks(file)
           i == FirstWithId(loaded, task_id)
       IN  /\ file' = IF i = 0 THEN loaded ELSE [loaded EXCEPT ![i].resolved = TRUE]
           /\ committed' = file'
           /\ response' = [op |-> "resolve", status |-> 200, task_id |-> task_id,
                            tasks |-> <<>>]
    /\ UNCHANGED <<clock, api_key, pc, analysis_lock, analysis_running, tasks, all_tasks>>

\* Lines 56-84 where line 70 negates the flag instead of setting it.
ResolveTaskToggles(task_id) ==
    /\ Suspended
    /\ LET loaded == load_tasks(file)
           i == FirstWithId(loaded, task_id)
       IN  IF i = 0
           THEN /\ response' = [op |-> "resolve", status |-> 404, task_id |-> task_id,
                                tasks |-> <<>>]
                /\ UNCHANGED <<file, committed>>
           ELSE /\ file' = [loaded EXCEPT ![i].resolved = ~@]
                /\ committed' = file'
                /\ response' = [op |-> "resolve", status |-> 200, task_id |-> task_id,
                                tasks |-> <<>>]
    /\ UNCHANGED <<clock, api_key, pc, analysis_lock, analysis_running, tasks, all_tasks>>

\* routers/tasks.py resolve_task, lines 56-84.
ResolveTask(task_id) ==
    /\ Suspended
    /\ LET loaded == load_tasks(file)
           i == FirstWithId(loaded, task_id)
       IN  IF i = 0
           THEN /\ response' = [op |-> "resolve", status |-> 404, task_id |-> task_id,
                                tasks |-> <<>>]
                /\ UNCHANGED <<file, committed>>
           ELSE /\ file' = [loaded EXCEPT ![i].resolved = TRUE]
                /\ committed' = file'
                /\ response' = [op |-> "resolve", status |-> 200, task_id |-> task_id,
                                tasks |-> <<>>]
    /\ UNCHANGED <<clock, api_key, pc, analysis_lock, analysis_running, tasks, all_tasks>>

\* The ids a client may send: those of the findings, and one of no finding.
TaskIds(raws) == {AddMetadata(raw, 0).id : raw \in raws} \cup {TaskId("")}

\* One step of continuous_analysis, main.py lines 66-81, run_analysis included.
Cycle(raws, max_tasks) ==
    \/ EnterGate
    \/ \E planes \in Snapshots : ReadPlanes(planes)
    \/ WeatherReturns
    \/ CallOracle
    \/ RunnerEnds
    \/ \E raw_tasks \in Batches(raws) : \E tts \in [Narratable(raw_tasks) -> BOOLEAN] :
           OracleReturns(raw_tasks, tts, max_tasks)
    \/ OracleFails
    \/ MergeTasks
    \/ PruneTasks
    \/ SaveOpen
    \/ SaveDump

\* One step of the system where the oracle draws its findings from raws, the
\* store holds at most max_tasks records and the clock stops at instant last.
Step(raws, max_tasks, last) ==
    \/ Tick(last)
    \/ Cycle(raws, max_tasks)
    \/ GetTasks
    \/ \E task_id \in TaskIds(raws) : ResolveTask(task_id)

Next == Step(RawTasks, MaxTasks, Len(Instants))

Spec == Init /\ [][Next]_vars

\* The system where every finding asks for narration.
NextAudio == Step(NarratedRawTasks, MaxAudioTasks, Len(AudioInstants))

SpecAudio == Init /\ [][NextAudio]_vars

\* The system with one finding, where the loop goes on and time passes: a
\* sleep ends, an await returns and the loop takes its next step (weak
\* fairness of the cycle), and the clock, which moves only while the loop is
\* suspended, reaches its last instant (strong fairness of Tick).
LiveRawTasks == {CHOOSE raw \in RawTasks : raw.priority = "LOW"}

NextLive == Step(LiveRawTasks, MaxLiveTasks, Len(AudioInstants))

SpecLive ==
    /\ Init
    /\ [][NextLive]_vars
    /\ WF_vars(Cycle(LiveRawTasks, MaxLiveTasks))
    /\ SF_vars(Tick(Len(AudioInstants)))

\* The system where the oracle leaves identity fields out.
NextSentinel == Step(SentinelRawTasks, MaxTasks, Len(AudioInstants))

SpecSentinel == Init /\ [][NextSentinel]_vars

\* The system where the oracle words its findings with underscores.
NextUnderscored == Step(UnderscoredRawTasks, MaxTasks, Len(AudioInstants))

SpecUnderscored == Init /\ [][NextUnderscored]_vars

\* ------------------------------------------- the system on a failing disk

\* save_tasks, lines 627-628: it caught an exception, printed it and returned.
SaveError == [op |-> "save_tasks", status |-> 500, task_id |-> 0, tasks |-> <<>>]

\* save_tasks, lines 624 and 627-628: open raises; tasks.json is as it was and
\* run_analysis returns as after a write.
SaveOpenFails ==
    /\ pc = "save"
    /\ all_tasks' = <<>>
    /\ LeaveGate
    /\ response' = SaveError
    /\ UNCHANGED <<file, committed, clock, api_key, tasks>>

\* save_tasks, lines 625 and 627-628: json.dump raises after open truncated
\* tasks.json; what the file holds is no JSON document and loads as [].
SaveDumpFails ==
    /\ pc = "dump"
    /\ all_tasks' = <<>>
    /\ LeaveGate
    /\ response' = SaveError
    /\ UNCHANGED <<file, committed, clock, api_key, tasks>>

NextSaveFails == Next \/ SaveOpenFails \/ SaveDumpFails

SpecSaveFails == Init /\ [][NextSaveFails]_vars

\* ------------------------------------- the system with a failing store read

\* load_tasks, lines 645-647: it caught an exception, printed it and returned [].
LoadError == [op |-> "load_tasks", status |-> 500, task_id |-> 0, tasks |-> <<>>]

\* analyze_with_dedalus, lines 378-464, where load_tasks of line 438 fails:
\* the allocator counts no narrated record.
OracleReturnsLoadFails(raw_tasks, tts, max_tasks) ==
    /\ pc = "answer"
    /\ LET found == Analyze(raw_tasks, <<>>, Now, tts)
       IN  /\ Len(AllTasks(Merge(load_tasks(file), found, Now))) <= max_tasks
           /\ tasks' = found
    /\ pc' = "merge"
    /\ response' = LoadError
    /\ UNCHANGED <<file, committed, clock, api_key, analysis_lock, analysis_running,
                   all_tasks>>

\* run_analysis, lines 504-537, where load_tasks of line 505 fails: the
\* findings are merged into [].
MergeTasksLoadFails ==
    /\ pc = "merge"
    /\ all_tasks' = AllTasks(Merge(<<>>, tasks, Now))
    /\ tasks' = <<>>
    /\ pc' = "prune"
    /\ response' = LoadError
    /\ UNCHANGED <<file, committed, clock, api_key, analysis_lock, analysis_running>>

\* routers/tasks.py get_tasks, where load_tasks fails: no task is returned.
GetTasksLoadFails ==
    /\ Suspended
    /\ response' = [op |-> "get_tasks", status |-> 200, task_id |-> 0, tasks |-> <<>>]
    /\ UNCHANGED <<file, committed, clock, api_key, pc, analysis_lock,
                   analysis_running, tasks, all_tasks>>

\* routers/tasks.py resolve_task, where load_tasks of line 66 fails: no record
\* has the id, 404 is answered and nothing is saved.
ResolveTaskLoadFails(task_id) ==
    /\ Suspended
    /\ response' = [op |-> "resolve", status |-> 404, task_id |-> task_id,
                    tasks |-> <<>>]
    /\ UNCHANGED <<file, committed, clock, api_key, pc, analysis_lock,
                   analysis_running, tasks, all_tasks>>

NextLoadFails ==
    \/ Next
    \/ \E raw_tasks \in Batches(RawTasks) : \E tts \in [Narratable(raw_tasks) -> BOOLEAN] :
           OracleReturnsLoadFails(raw_tasks, tts, MaxTasks)
    \/ MergeTasksLoadFails
    \/ GetTasksLoadFails
    \/ \E task_id \in TaskIds(RawTasks) : ResolveTaskLoadFails(task_id)

SpecLoadFails == Init /\ [][NextLoadFails]_vars

\* ------------------------------------------------------ the pruner alone

\* The records a list in memory may hold at instant now: created at an instant
\* up to now, last seen then or later, or written by a version that did not
\* record last_seen; resolved or not.
PrunableRecords(now) ==
    LET raw == CHOOSE r \in RawTasks : r.priority = "LOW"
    IN  {[AddMetadata(raw, Instants[c]) EXCEPT !.last_seen = l, !.resolved = b] :
            c \in 1..now,
            l \in {NoTime} \cup {Instants[k] : k \in 1..now},
            b \in BOOLEAN}

\* run_analysis stands before line 540 with any such list, loaded from the store
\* by a merge that found nothing to add.
InitPrune ==
    /\ clock \in 1..Len(Instants)
    /\ all_tasks \in UNION {[1..n -> {r \in PrunableRecords(clock) :
                                        r.last_seen = NoTime \/ r.created_at <= r.last_seen}] :
                             n \in 0..MaxPruneTasks}
    /\ file = all_tasks
    /\ committed = all_tasks
    /\ api_key = TRUE
    /\ pc = "prune"
    /\ analysis_lock = TRUE
    /\ analysis_running = TRUE
    /\ tasks = <<>>
    /\ response = NoResponse

NextPrune == PruneTasks \/ SaveOpen \/ SaveDump

SpecPrune == InitPrune /\ [][NextPrune]_vars

\* The records of a tasks.json that other hands have written to: created_at
\* and last_seen are each an early instant, the last instant, absent or a
\* string that is no ISO timestamp.
UnparsedRecords ==
    LET raw == CHOOSE r \in RawTasks : r.priority = "LOW"
        Stamps == {NoTime, BadTime, Instants[2], Instants[Len(Instants)]}
    IN  {[AddMetadata(raw, c) EXCEPT !.last_seen = l, !.resolved = b] :
            c \in Stamps, l \in Stamps, b \in BOOLEAN}

\* run_analysis stands before line 540 at the last instant with such a list.
InitPruneUnparsed ==
    /\ clock = Len(Instants)
    /\ all_tasks \in UNION {[1..n -> UnparsedRecords] : n \in 0..MaxPruneTasks}
    /\ file = all_tasks
    /\ committed = all_tasks
    /\ api_key = TRUE
    /\ pc = "prune"
    /\ analysis_lock = TRUE
    /\ analysis_running = TRUE
    /\ tasks = <<>>
    /\ response = NoResponse

SpecPruneUnparsed == InitPruneUnparsed /\ [][NextPrune]_vars

\* ================================================================ claims

Unresolved(stored) == {i \in 1..Len(stored) : ~stored[i].resolved}

\* C1: no two unresolved records of the store have the same fingerprint, a
\* finding whose fingerprint an unresolved record has (one created from the
\* same answer included) updates that record instead of adding one.
C1_UniqueUnresolvedFingerprints ==
    \A i, j \in Unresolved(file) :
        file[i].fingerprint = file[j].fingerprint => i = j

\* The unresolved HIGH-priority records of the store that have an audio file.
NarratedHigh(stored) ==
    {i \in Unresolved(stored) :
        stored[i].priority = "HIGH" /\ stored[i].audio_file # None}

\* C2: in every state of the store at most 3 unresolved HIGH-priority records
\* have an audio file.
C2_AudioCap ==
    /\ Cardinality(NarratedHigh(file)) <= 3
    /\ Cardinality(NarratedHigh(committed)) <= 3

\* C2: the cap is reached while a further unresolved HIGH-priority record
\* with a pilot message has no audio.
C2_Witness ==
    /\ Cardinality(NarratedHigh(file)) = 3
    /\ \E i \in Unresolved(file) :
           /\ file[i].priority = "HIGH"
           /\ file[i].pilot_message # ""
           /\ file[i].audio_file = None

\* A cycle is executing: continuous_analysis is inside its async with block.
InCycle == pc # "idle"

\* C3: at most one analysis cycle executes at a time.  The one scheduler
\* task is inside a cycle exactly while it holds the gate and the RUNNING flag
\* is up, and a cycle starts only when the gate is free and no cycle is RUNNING.
C3_OneCycleAtATime ==
    /\ [](InCycle <=> analysis_lock)
    /\ [](InCycle <=> analysis_running)
    /\ [][pc' = "run" => (pc = "idle" /\ ~analysis_lock /\ ~analysis_running)]_vars

\* C3: a cycle is suspended in the oracle call after an earlier cycle wrote
\* the store.
C3_Witness ==
    /\ pc = "oracle"
    /\ analysis_running
    /\ committed # <<>>

\* C4: merging the findings of an answer into the store twice, at the same
\* time, gives the store that merging them once gives.
C4_MergeIdempotent ==
    pc = "merge" =>
        LET once == AllTasks(Merge(load_tasks(file), tasks, Now))
        IN  AllTasks(Merge(once, tasks, Now)) = once

\* a is b with some of its elements left out.
RECURSIVE IsSubsequence(_, _)
IsSubsequence(a, b) ==
    IF a = <<>> THEN TRUE
    ELSE IF b = <<>> THEN FALSE
    ELSE IF Head(a) = Head(b) THEN IsSubsequence(Tail(a), Tail(b))
    ELSE IsSubsequence(a, Tail(b))

\* C5: every record of the store has last_seen >= created_at, and no step
\* lowers a record's last_seen.  The merge keeps the loaded records in place,
\* gives a matched one last_seen = now and a new one last_seen = created_at;
\* the pruner and the write keep the records they keep as they are; a
\* resolve leaves every last_seen alone.
C5_LastSeenMonotonic ==
    /\ [](\A i \in 1..Len(file) : file[i].last_seen >= file[i].created_at)
    /\ [][/\ pc = "merge" =>
              /\ Len(all_tasks') >= Len(file)
              /\ \A i \in 1..Len(file) :
                     /\ all_tasks'[i].created_at = file[i].created_at
                     /\ all_tasks'[i].last_seen >= file[i].last_seen
                     /\ all_tasks'[i].last_seen \in {file[i].last_seen, Now}
              /\ \A k \in 1..Len(tasks) :
                     \A i \in Unresolved(file) :
                         (file[i].fingerprint = tasks[k].fingerprint
                            /\ \A j \in Unresolved(file) :
                                   file[j].fingerprint = tasks[k].fingerprint => j <= i)
                         => all_tasks'[i].last_seen = Now
              /\ \A i \in (Len(file) + 1)..Len(all_tasks') :
                     all_tasks'[i].last_seen = all_tasks'[i].created_at
          /\ pc = "prune" => IsSubsequence(all_tasks', all_tasks)
          /\ pc = "dump" => file' = all_tasks
          /\ response'.op = "resolve" =>
              /\ Len(file') = Len(file)
              /\ \A i \in 1..Len(file) : file'[i].last_seen = file[i].last_seen
         ]_vars

\* C5: the store holds a record seen again after it was created.
C5_Witness ==
    \E i \in 1..Len(file) : file[i].last_seen > file[i].created_at

\* C6: a finding whose fingerprint only resolved records have makes the merge
\* add a new unresolved record and leaves those resolved records as they are.
C6_ResolvedRecurrence ==
    [][pc = "merge" =>
          \A k \in 1..Len(tasks) :
              LET SameIssue(i) == file[i].fingerprint = tasks[k].fingerprint
              IN  (/\ \E i \in 1..Len(file) : file[i].resolved /\ SameIssue(i)
                   /\ \A i \in Unresolved(file) : ~SameIssue(i))
                  => /\ Len(all_tasks') > Len(file)
                     /\ \A i \in 1..Len(file) : SameIssue(i) => all_tasks'[i] = file[i]
                     /\ \E j \in (Len(file) + 1)..Len(all_tasks') :
                            /\ all_tasks'[j].fingerprint = tasks[k].fingerprint
                            /\ ~all_tasks'[j].resolved
                            /\ all_tasks'[j].created_at = Now
                            /\ all_tasks'[j].last_seen = Now
      ]_vars

\* C6: the store holds a resolved record and, after it, an unresolved record
\* of the same fingerprint created at a later instant.
C6_Witness ==
    \E i, j \in 1..Len(file) :
        /\ i < j
        /\ file[i].created_at < file[j].created_at
        /\ file[i].resolved
        /\ ~file[j].resolved
        /\ file[i].fingerprint = file[j].fingerprint

\* C7: the pruner drops an unresolved record exactly when now - last_seen
\* (created_at for a record without last_seen) is more than 10 minutes.
C7_UnresolvedExpiry ==
    [][pc = "prune" =>
          LET Age(t) == Now - (IF t.last_seen # NoTime THEN t.last_seen ELSE t.created_at)
              Open(t) == ~t.resolved
              Fresh(t) == ~t.resolved /\ Age(t) <= 10
          IN  SelectSeq(all_tasks', Open) = SelectSeq(all_tasks, Fresh)
      ]_vars

\* C7: the pruner kept an unresolved record without last_seen created 10
\* minutes ago and dropped an unresolved record that came after it.
C7_Witness ==
    /\ pc = "save"
    /\ Len(file) = 2
    /\ all_tasks = <<file[1]>>
    /\ ~file[1].resolved
    /\ file[1].last_seen = NoTime
    /\ Now - file[1].created_at = 10
    /\ ~file[2].resolved

\* C8: the pruner drops a resolved record exactly when now - created_at is
\* more than 60 minutes, whatever its last_seen.
C8_ResolvedRetention ==
    [][pc = "prune" =>
          LET Closed(t) == t.resolved
              Retained(t) == t.resolved /\ Now - t.created_at <= 60
          IN  SelectSeq(all_tasks', Closed) = SelectSeq(all_tasks, Retained)
      ]_vars

\* C8: the pruner kept a resolved record created 60 minutes ago and not seen
\* since, and dropped a resolved record last seen at this instant.
C8_Witness ==
    /\ pc = "save"
    /\ Len(file) = 2
    /\ all_tasks = <<file[1]>>
    /\ file[1].resolved
    /\ Now - file[1].created_at = 60
    /\ file[1].last_seen = file[1].created_at
    /\ file[2].resolved
    /\ file[2].last_seen = Now

\* C9: what get_active_tasks returns is the unresolved part of the store as
\* the last completed write left it, also while a cycle runs.
C9_ReadsSeeCommittedStore ==
    response.op = "get_tasks" =>
        LET Open(t) == ~t.resolved
        IN  response.tasks = SelectSeq(committed, Open)

\* C9: a read during a cycle, answered with the tasks of an earlier cycle.
C9_Witness ==
    /\ response.op = "get_tasks"
    /\ response.tasks # <<>>
    /\ analysis_running
    /\ pc = "oracle"

\* C10: after resolve_task(id) answered success, get_active_tasks returns no
\* record with that id.
C10_ResolvedLeavesActiveTasks ==
    (response.op = "resolve" /\ response.status = 200) =>
        \A i \in 1..Len(get_active_tasks(file)) :
            get_active_tasks(file)[i].id # response.task_id

\* C11: resolve_task with an id that no record of the store has answers 404
\* and leaves the store as it was; it answers 404 in no other case.
C11_ResolveUnknownId ==
    [][response'.op = "resolve" =>
          LET Known == \E i \in 1..Len(file) : file[i].id = response'.task_id
          IN  /\ ~Known => (response'.status = 404 /\ file' = file /\ committed' = committed)
              /\ response'.status = 404 => ~Known
      ]_vars

\* C11: a store that holds records answered 404.
C11_Witness ==
    /\ response.op = "resolve"
    /\ response.status = 404
    /\ file # <<>>
    /\ \A i \in 1..Len(file) : file[i].id # response.task_id

\* C12: a resolve_task that follows a successful resolve_task of the same id
\* answers success too and leaves the store as the first left it.
C12_ResolveIdempotent ==
    [][(/\ response.op = "resolve"
        /\ response.status = 200
        /\ response'.op = "resolve"
        /\ response'.task_id = response.task_id)
       => (response'.status = 200 /\ file' = file /\ committed' = committed)
      ]_vars

\* C12: resolve_task answered success for an id whose first record was
\* resolved, while another record of the store stays unresolved.
C12_Witness ==
    /\ response.op = "resolve"
    /\ response.status = 200
    /\ FirstWithId(file, response.task_id) # 0
    /\ file[FirstWithId(file, response.task_id)].resolved
    /\ Unresolved(file) # {}

\* C13: get_tasks answers the unresolved records of the store, all of them
\* and no other, in the order of the store, and leaves the store as it was.
C13_ActiveTasksExact ==
    [][response'.op = "get_tasks" =>
          /\ IsSubsequence(response'.tasks, file)
          /\ \A i \in 1..Len(response'.tasks) : ~response'.tasks[i].resolved
          /\ Len(response'.tasks) = Cardinality(Unresolved(file))
          /\ file' = file
          /\ committed' = committed
      ]_vars

\* C13: a read of a store that holds a resolved record before an unresolved
\* one answered one record.
C13_Witness ==
    /\ response.op = "get_tasks"
    /\ Len(file) = 2
    /\ file[1].resolved
    /\ response.tasks = <<file[2]>>

\* C14: a cycle that reads an empty snapshot ends at once: the oracle is not
\* called, nothing is merged, allocated or pruned, and tasks.json is neither
\* written nor opened.
C14_EmptySnapshotSkipsCycle ==
    [][ReadPlanes("empty") =>
          /\ pc' = "idle"
          /\ ~analysis_running' /\ ~analysis_lock'
          /\ UNCHANGED <<file, committed, tasks, all_tasks>>
      ]_vars

\* C14: a cycle was skipped over a store that holds an unresolved record
\* older than the expiry, which a prune would have dropped.
C14_Witness ==
    /\ response = Skipped
    /\ pc = "idle"
    /\ \E i \in Unresolved(file) : Now - file[i].last_seen > TASK_EXPIRY_MINUTES

\* C15: when the oracle call raises, its answer does not parse or the API key
\* is missing, the cycle goes on with no findings: the merge gives the stored
\* list as it is, the pruner is applied to it and the result is written.
C15_OracleFailureStillCompletes ==
    [][/\ (OracleFails \/ (CallOracle /\ ~api_key)) =>
              /\ tasks' = <<>>
              /\ pc' = "merge"
              /\ analysis_running'
              /\ UNCHANGED <<file, committed>>
       /\ (pc = "merge" /\ tasks = <<>>) =>
              /\ all_tasks' = file
              /\ pc' = "prune"
       /\ (pc = "prune" /\ all_tasks = file) =>
              LET Kept(t) == IF t.resolved
                             THEN Now - t.created_at <= 60 * RESOLVED_TASK_RETENTION_HOURS
                             ELSE Now - t.last_seen <= TASK_EXPIRY_MINUTES
              IN  /\ all_tasks' = SelectSeq(file, Kept)
                  /\ pc' = "save"
       /\ pc = "save" => (pc' = "dump" /\ all_tasks' = all_tasks)
       /\ pc = "dump" => (file' = all_tasks /\ committed' = all_tasks /\ pc' = "idle")
      ]_vars

\* C15: the oracle failed in a cycle over a store that holds a record the
\* pruner keeps and a record it drops.
C15_Witness ==
    /\ response = Failed
    /\ pc = "merge"
    /\ tasks = <<>>
    /\ \E i, j \in 1..Len(file) :
           /\ ~file[i].resolved
           /\ Now - file[i].last_seen > TASK_EXPIRY_MINUTES
           /\ file[j].resolved
           /\ Now - file[j].created_at <= 60 * RESOLVED_TASK_RETENTION_HOURS

\* C16: after a write of the cycle failed, the store loads as the list that
\* the last completed write left.
C16_FailedSaveKeepsStore ==
    response = SaveError => load_tasks(file) = committed

\* C17: a record that has an audio_file keeps that audio_file through the
\* merge, the pruner (if it keeps the record), the write and resolve_task.
C17_AudioSticky ==
    [][/\ pc = "merge" =>
              /\ Len(all_tasks') >= Len(file)
              /\ \A i \in 1..Len(file) :
                     file[i].audio_file # None =>
                         all_tasks'[i].audio_file = file[i].audio_file
       /\ pc = "prune" => IsSubsequence(all_tasks', all_tasks)
       /\ pc = "dump" => file' = all_tasks
       /\ response'.op = "resolve" =>
              /\ Len(file') = Len(file)
              /\ \A i \in 1..Len(file) : file'[i].audio_file = file[i].audio_file
      ]_vars

\* C17: the store holds a record with an audio_file that was seen again
\* later, with the description of a finding that came without audio.
C17_Witness ==
    \E i \in 1..Len(file) :
        /\ file[i].audio_file # None
        /\ file[i].last_seen > file[i].created_at
        /\ file[i].description = "low alt"

\* C18: no record of priority MEDIUM or LOW has an audio_file, in the store
\* or in the findings of a cycle.
C18_AudioOnlyForHigh ==
    \A stored \in {file, committed, tasks, all_tasks} :
        \A i \in 1..Len(stored) :
            stored[i].priority \in {"MEDIUM", "LOW"} => stored[i].audio_file = None

\* C18: the store holds a record of low priority with a pilot message and no
\* audio_file, next to a narrated record of high priority.
C18_Witness ==
    \E i, j \in 1..Len(file) :
        /\ file[i].priority = "LOW"
        /\ file[i].pilot_message # ""
        /\ file[i].audio_file = None
        /\ file[j].priority = "HIGH"
        /\ file[j].audio_file # None

\* C19: two findings or records have the same fingerprint only if they have
\* the same aircraft, category and priority.
C19_FingerprintInjective ==
    \A s1, s2 \in {file, tasks, all_tasks} :
        \A i \in 1..Len(s1) : \A j \in 1..Len(s2) :
            s1[i].fingerprint = s2[j].fingerprint =>
                /\ s1[i].aircraft_icao24 = s2[j].aircraft_icao24
                /\ s1[i].category = s2[j].category
                /\ s1[i].priority = s2[j].priority

\* C20: if from some point on the oracle reports no finding, then from some
\* point on the store holds no unresolved record last seen more than the
\* expiry before the last instant of the clock.
C20_UnreportedTaskExpires ==
    <>[](tasks = <<>>) =>
        <>[](\A i \in Unresolved(file) :
                 Instants[Len(AudioInstants)] - file[i].last_seen <= TASK_EXPIRY_MINUTES)

\* C21: whenever the loop rests between cycles the gate is free and the flag
\* is down, a cycle that has started ends, by return or by exception, and a
\* further cycle starts, again and again.
C21_SchedulerNeverStops ==
    /\ [](pc = "idle" => (~analysis_lock /\ ~analysis_running))
    /\ (pc = "run") ~> (pc = "idle")
    /\ []<>(pc = "run")

\* C21: a cycle ended by an exception after an earlier cycle had written the
\* store; the gate is free and the flag is down.
C21_Witness ==
    /\ response = Raised
    /\ pc = "idle"
    /\ ~analysis_lock
    /\ ~analysis_running
    /\ committed # <<>>

\* The unresolved records of stored that have the fingerprint.
UnresolvedWith(stored, fingerprint) ==
    {i \in Unresolved(stored) : stored[i].fingerprint = fingerprint}

\* The findings of the batch that have the fingerprint.
CandidatesWith(batch, fingerprint) ==
    {k \in 1..Len(batch) : batch[k].fingerprint = fingerprint}

\* C22: after the merge of a finding that matches an unresolved record, one
\* unresolved record has its fingerprint, that record has last_seen = now,
\* and (the finding being the only one of its fingerprint in the answer) its
\* description is the finding's if that is strictly longer than the stored
\* one and the stored one otherwise.
C22_DescriptionRule ==
    [][pc = "merge" =>
          \A k \in 1..Len(tasks) :
              LET f == tasks[k].fingerprint
              IN  UnresolvedWith(file, f) # {} =>
                      /\ Cardinality(UnresolvedWith(all_tasks', f)) = 1
                      /\ \A i \in UnresolvedWith(all_tasks', f) :
                             /\ i <= Len(file)
                             /\ all_tasks'[i].last_seen = Now
                             /\ CandidatesWith(tasks, f) = {k} =>
                                    all_tasks'[i].description =
                                        IF Len(tasks[k].description) > Len(file[i].description)
                                        THEN tasks[k].description
                                        ELSE file[i].description
      ]_vars

\* C23: the merge changes of a stored record at most last_seen, the
\* description and an audio_file that was absent; created_at, resolved,
\* fingerprint, id, aircraft, category, priority and pilot message stay.
C23_MergeFrame ==
    [][pc = "merge" =>
          /\ Len(all_tasks') >= Len(file)
          /\ \A i \in 1..Len(file) :
                 /\ all_tasks'[i] = [file[i] EXCEPT
                                        !.last_seen = all_tasks'[i].last_seen,
                                        !.description = all_tasks'[i].description,
                                        !.audio_file = all_tasks'[i].audio_file]
                 /\ file[i].audio_file # None =>
                        all_tasks'[i].audio_file = file[i].audio_file
      ]_vars

\* C23: the store holds a record made from a finding with a pilot message
\* that a later finding without one refreshed and gave its description.
C23_Witness ==
    \E i \in 1..Len(file) :
        /\ file[i].last_seen > file[i].created_at
        /\ file[i].description = "low alt"
        /\ file[i].pilot_message = "climb"

\* C24: a finding whose fingerprint an unresolved record with an audio_file
\* has comes out of the allocator without an audio_file: no narration was
\* requested for it.
C24_NoNarrationForNarratedRecord ==
    pc = "merge" =>
        \A k \in 1..Len(tasks) :
            (\E i \in UnresolvedWith(file, tasks[k].fingerprint) :
                 file[i].audio_file # None)
            => tasks[k].audio_file = None

\* C25: whatever the oracle answers and wherever the narrator fails, the
\* findings that leave the allocator with an audio_file are findings the
\* narrator succeeded for, the first of them in order, as many as there are
\* slots: a failure takes no slot, and the failed finding has no audio_file.
C25_FailedNarrationTakesNoSlot ==
    pc = "answer" =>
        \A raw_tasks \in Batches(NarratedRawTasks) :
            \A tts \in [Narratable(raw_tasks) -> BOOLEAN] :
                LET found == Analyze(raw_tasks, load_tasks(file), Now, tts)
                    taken == Cardinality(NarratedHigh(file))
                    slots == IF taken < 3 THEN 3 - taken ELSE 0
                    Spoken == {k \in Narratable(raw_tasks) : tts[k]}
                    Given == {k \in 1..Len(found) : found[k].audio_file # None}
                IN  /\ Given \subseteq Spoken
                    /\ Cardinality(Given) =
                           IF Cardinality(Spoken) < slots THEN Cardinality(Spoken) ELSE slots
                    /\ \A k \in Given : \A j \in Spoken \ Given : k < j

\* C25: with one slot left, the narrator failed for the first finding of an
\* answer and the second finding got the slot.
C25_Witness ==
    /\ pc = "merge"
    /\ Len(tasks) = 2
    /\ tasks[1].audio_file = None
    /\ tasks[2].audio_file # None
    /\ Cardinality(NarratedHigh(file)) = 2

\* C26: in the merge an unresolved record without audio_file takes the
\* audio_file of a finding of its fingerprint that was narrated in this
\* cycle, and a record with an audio_file keeps it.
C26_AudioAdoption ==
    [][pc = "merge" =>
          \A i \in Unresolved(file) :
              /\ file[i].audio_file # None =>
                     all_tasks'[i].audio_file = file[i].audio_file
              /\ file[i].audio_file = None =>
                     \A k \in CandidatesWith(tasks, file[i].fingerprint) :
                         tasks[k].audio_file # None =>
                             all_tasks'[i].audio_file = tasks[k].audio_file
      ]_vars

\* The timestamp the pruner judges a record by.
RelevantTime(t) ==
    IF t.resolved \/ t.last_seen = NoTime THEN t.created_at ELSE t.last_seen

\* C27: the pruner keeps every record whose relevant timestamp is absent or
\* does not parse, in place, and judges the other records of the list by
\* their age as if those were not there.
C27_UnparsedTimestampKept ==
    [][pc = "prune" =>
          LET Unreadable(t) == RelevantTime(t) \in {NoTime, BadTime}
              Readable(t) == ~Unreadable(t)
              Due(t) == /\ Readable(t)
                        /\ Now - RelevantTime(t) <= IF t.resolved THEN 60 ELSE 10
          IN  /\ pc' = "save"
              /\ IsSubsequence(all_tasks', all_tasks)
              /\ SelectSeq(all_tasks', Unreadable) = SelectSeq(all_tasks, Unreadable)
              /\ SelectSeq(all_tasks', Readable) = SelectSeq(all_tasks, Due)
      ]_vars

\* C27: the pruner kept an unresolved record whose last_seen does not parse
\* (its created_at being old) and dropped the stale record after it.
C27_Witness ==
    /\ pc = "save"
    /\ Len(file) = 2
    /\ all_tasks = <<file[1]>>
    /\ ~file[1].resolved
    /\ file[1].last_seen = BadTime
    /\ file[1].created_at = Instants[2]
    /\ ~file[2].resolved
    /\ file[2].last_seen = Instants[2]

C29_EmptyMergeIdentity ==
    /\ [](LET m == Merge(load_tasks(file), <<>>, Now)
          IN  /\ m.existing_tasks = file
              /\ m.new_tasks = <<>>
              /\ m.updated_indices = {}
              /\ AllTasks(m) = file)
    /\ [][(pc = "merge" /\ tasks = <<>>) => all_tasks' = file]_vars

\* C29: a merge of no findings has handed on a store whose unresolved records
\* were all last seen before this instant.
C29_Witness ==
    /\ pc = "prune"
    /\ all_tasks = file
    /\ Unresolved(file) # {}
    /\ \E i \in 1..Len(file) : file[i].resolved
    /\ \A i \in Unresolved(file) : file[i].last_seen < Now

\* C30: the list the merge hands on is the stored records, each in its place
\* and untouched unless matched, followed by the new records; its length is
\* the store's plus the number of new records; the updated indices are those
\* of the records some finding matched; and every finding either matched a
\* record or is one of the new records.
C30_MergeResultCounts ==
    [][pc = "merge" =>
          LET m == Merge(load_tasks(file), tasks, Now)
              Matched(k) == UnresolvedWith(file, tasks[k].fingerprint) # {}
              News == {k \in 1..Len(tasks) : ~Matched(k)}
          IN  /\ Len(all_tasks') = Len(file) + Len(m.new_tasks)
              /\ Len(m.new_tasks) = Cardinality(News)
              /\ SubSeq(all_tasks', Len(file) + 1, Len(all_tasks')) = m.new_tasks
              /\ \A i \in 1..Len(file) :
                     /\ all_tasks'[i].fingerprint = file[i].fingerprint
                     /\ all_tasks'[i].created_at = file[i].created_at
                     /\ i \notin m.updated_indices => all_tasks'[i] = file[i]
              /\ m.updated_indices =
                     {i \in Unresolved(file) :
                         \E k \in 1..Len(tasks) :
                             /\ tasks[k].fingerprint = file[i].fingerprint
                             /\ \A j \in UnresolvedWith(file, tasks[k].fingerprint) : j <= i}
              /\ \A k \in 1..Len(tasks) :
                     IF Matched(k)
                     THEN \E i \in m.updated_indices :
                              file[i].fingerprint = tasks[k].fingerprint
                     ELSE \E j \in 1..Len(m.new_tasks) :
                              m.new_tasks[j] = [tasks[k] EXCEPT !.last_seen = Now]
      ]_vars

\* C30: a merge refreshed the stored record and put a new record behind it.
C30_Witness ==
    /\ pc = "prune"
    /\ Len(file) = 1
    /\ Len(all_tasks) = 2
    /\ all_tasks[1] # file[1]
    /\ all_tasks[1].fingerprint = file[1].fingerprint
    /\ all_tasks[2].fingerprint # file[1].fingerprint

\* C31: the steps of a cycle that is not skipped run in the order oracle,
\* merge, allocator, pruner, write: the findings reach the merge without audio,
\* a record the merge creates has no audio_file when it is created, and the
\* store is read by the merge alone, so no narration depends on the store
\* before it.
C31_AllocatorAfterMerge ==
    /\ [](pc = "merge" => \A k \in 1..Len(tasks) : tasks[k].audio_file = None)
    /\ [][pc = "merge" =>
             \A i \in (Len(file) + 1)..Len(all_tasks') :
                 all_tasks'[i].audio_file = None]_vars

\* C32: every record the merge of a cycle creates or matches is in the list
\* that cycle's pruner returns, and every unresolved record of the store whose
\* fingerprint the cycle's findings report is in it too, whatever its
\* last_seen was before the cycle.
C32_ReportedTaskSurvives ==
    [](pc = "merge" =>
          LET m == Merge(load_tasks(file), tasks, Now)
              merged == AllTasks(m)
              kept == prune_outdated_tasks(merged, Now)
          IN  /\ \A i \in m.updated_indices \cup ((Len(file) + 1)..Len(merged)) :
                     \E j \in 1..Len(kept) : kept[j] = merged[i]
              /\ \A k \in 1..Len(tasks) :
                     Cardinality(UnresolvedWith(kept, tasks[k].fingerprint))
                         = Cardinality(UnresolvedWith(merged, tasks[k].fingerprint)))

\* The record of stored that a later list holds as the same task: same id,
\* fingerprint, creation and resolution.
SameRecord(a, b) ==
    /\ a.id = b.id
    /\ a.fingerprint = b.fingerprint
    /\ a.created_at = b.created_at
    /\ a.resolved = b.resolved

\* C33: every record the store held before a cycle's write is in the store
\* after it, or was one the pruner's rules remove at that cycle's instant; and
\* a resolve_task call leaves every record in its place, whether or not a
\* read of the store failed.
C33_RecordsLeaveOnlyByPruner ==
    /\ [][pc = "dump" =>
             \A i \in 1..Len(committed) :
                 \/ \E j \in 1..Len(file') : SameRecord(committed[i], file'[j])
                 \/ ~KeepTask(committed[i], Now)]_vars
    /\ [][response'.op = "resolve" =>
             /\ Len(file') = Len(file)
             /\ \A i \in 1..Len(file) :
                    [file'[i] EXCEPT !.resolved = FALSE]
                        = [file[i] EXCEPT !.resolved = FALSE]]_vars

\* C34: a resolve_task that answers success while a cycle is running leaves
\* the record resolved in the store, and the write of that cycle stores the
\* resolved records of the store as they were, less those the retention rule
\* removes: none comes back unresolved.
C34_ResolveDuringCycleKept ==
    /\ [][(response'.op = "resolve" /\ response'.status = 200 /\ analysis_running) =>
             /\ committed' = file'
             /\ \E i \in 1..Len(file') :
                    file'[i].id = response'.task_id /\ file'[i].resolved]_vars
    /\ [][pc = "dump" =>
             LET IsResolved(r) == r.resolved
                 IsRetained(r) == r.resolved /\ KeepTask(r, Now)
             IN  SelectSeq(file', IsResolved) = SelectSeq(committed, IsRetained)]_vars

\* C34: resolve_task has answered success while the cycle awaits the oracle.
C34_Witness ==
    /\ pc = "oracle"
    /\ analysis_running
    /\ response.op = "resolve"
    /\ response.status = 200
    /\ \E i \in 1..Len(file) : file[i].id = response.task_id /\ file[i].resolved

\* C35: a resolved record stays resolved: the merge hands every resolved
\* record of the store on in its place with no field changed, the pruner
\* changes no record it keeps, and resolve_task leaves every resolved record
\* resolved.
C35_ResolutionIrreversible ==
    /\ [][pc = "merge" =>
             \A i \in 1..Len(file) : file[i].resolved => all_tasks'[i] = file[i]]_vars
    /\ [][pc = "prune" => IsSubsequence(all_tasks', all_tasks)]_vars
    /\ [][response'.op = "resolve" =>
             \A i \in 1..Len(file) : file[i].resolved => file'[i] = file[i]]_vars

\* C35: the merge met a finding with the fingerprint of a resolved record and
\* created a record for it behind the stored ones.
C35_Witness ==
    /\ pc = "prune"
    /\ \E i \in 1..Len(file) :
           /\ file[i].resolved
           /\ all_tasks[i] = file[i]
           /\ \E j \in (Len(file) + 1)..Len(all_tasks) :
                  all_tasks[j].fingerprint = file[i].fingerprint

\* What tells a stored record from the others, whatever the merge refreshed.
KeysOf(stored) ==
    [i \in 1..Len(stored) |->
        <<stored[i].id, stored[i].fingerprint, stored[i].created_at, stored[i].resolved>>]

\* C36: the store keeps its order.  The merge hands on the stored records in
\* their places, followed by the records made of the findings that matched
\* no unresolved record, in the order of the findings; the pruner leaves out
\* records and moves none; the write stores the list as pruned; and
\* resolve_task leaves every record where it was.
C36_StoreOrderStable ==
    /\ [][pc = "merge" =>
             LET IsNew(t) == UnresolvedWith(file, t.fingerprint) = {}
                 created == SelectSeq(tasks, IsNew)
             IN  /\ KeysOf(SubSeq(all_tasks', 1, Len(file))) = KeysOf(file)
                 /\ SubSeq(all_tasks', Len(file) + 1, Len(all_tasks'))
                        = [k \in 1..Len(created) |->
                              [created[k] EXCEPT !.last_seen = created[k].created_at]]]_vars
    /\ [][pc = "prune" => IsSubsequence(KeysOf(all_tasks'), KeysOf(all_tasks))]_vars
    /\ [][pc = "dump" => file' = all_tasks]_vars
    /\ [][response'.op = "resolve" =>
             KeysOf([i \in 1..Len(file') |-> [file'[i] EXCEPT !.resolved = FALSE]])
                 = KeysOf([i \in 1..Len(file) |-> [file[i] EXCEPT !.resolved = FALSE]])]_vars

\* C36: a cycle kept the stored record first and put the record it created
\* for an unmatched finding behind it.
C36_Witness ==
    /\ pc = "save"
    /\ Len(file) = 1
    /\ Len(all_tasks) = 2
    /\ KeysOf(all_tasks)[1] = KeysOf(file)[1]
    /\ all_tasks[2].fingerprint # file[1].fingerprint
    /\ all_tasks[2].created_at > file[1].created_at

\* C37: the list the pruner returns is its input with some records left out,
\* the others unmodified and in their order, and pruning that list again at
\* the same instant returns it unchanged.
C37_PruneSubsequenceIdempotent ==
    /\ [](LET once == prune_outdated_tasks(all_tasks, Now)
          IN  /\ IsSubsequence(once, all_tasks)
              /\ prune_outdated_tasks(once, Now) = once)
    /\ [][pc = "prune" =>
             /\ IsSubsequence(all_tasks', all_tasks)
             /\ prune_outdated_tasks(all_tasks', Now) = all_tasks']_vars

\* C37: the pruner was given two records, removed the first and returned the
\* second.
C37_Witness ==
    /\ pc = "save"
    /\ Len(file) = 2
    /\ file[1] # file[2]
    /\ all_tasks = <<file[2]>>

====
